---- MODULE Spec2Model ----
(***************************************************************************)
(* Model of tools/sort/sort_methods_aligned.py: the sort methods that rank *)
(* and group faces by a metric read from an AlignedFace (distance, size,   *)
(* pitch, yaw, roll) or by their aligned landmarks (face-cnn,              *)
(* face-cnn-dissim).                                                       *)
(*                                                                         *)
(* One sorter object is modelled.  Init is the state after __init__, and   *)
(* the actions are its methods: score_image (one call per image), sort and *)
(* binning.  The two landmark loops whose iterations the properties speak  *)
(* of (_sort_landmarks_ssim and SortFaceCNN.binning) are split into one    *)
(* step per outer iteration; every other method is a single action.        *)
(*                                                                         *)
(* Indices: the code is 0-based, TLA+ sequences are 1-based.  Loop         *)
(* counters (i, j, bin_idx, dictionary keys) keep the code's 0-based       *)
(* values; element k of a Python list is element k + 1 of the sequence.    *)
(* An entry (filename, metric) is the tuple <<filename, metric>>, so       *)
(* itemgetter(1) is entry[2].                                              *)
(*                                                                         *)
(* Numbers: metrics and landmark coordinates are drawn from integers, so   *)
(* float32/float64 arithmetic on them is exact.  The threshold is kept in  *)
(* tenths (7.2 is 72) and averages are kept as fractions num/den.          *)
(***************************************************************************)
EXTENDS Integers, Sequences, FiniteSets, TLC

\* Number of score_image calls (images) in one run.
MaxFiles == 4
\* Largest configured number of bins.
MaxBins == 4

\* The default threshold 7.2, in tenths.
DefaultThreshold == 72
\* arguments.threshold below 1.0 (10 tenths) selects the default.
ThresholdFloor == 10
\* binning multiplies the threshold by 1000.
ThresholdScale == 1000
\* Angles are clipped to [-90, 90] and the thresholds span 90 .. -90.
MaxAngle == 90

AngleMethods == {"pitch", "yaw", "roll"}
CnnMethods == {"face-cnn", "face-cnn-dissim"}
Methods == {"distance", "size"} \cup AngleMethods \cup CnnMethods

-----------------------------------------------------------------------------
(* Inputs *)

\* arguments.threshold in tenths: the CLI default -1.0, then 1.0 and 4.0.
ThresholdArgs == {-10, 10, 40}

\* Aligned landmark arrays, two (x, y) points each.  Pairwise L1 distances:
\* 0, 1000, 3000, 4000, 5000, 7000, 8000, on both sides of every threshold.
LandmarkPool ==
    { << <<0, 0>>, <<0, 0>> >>,
      << <<1000, 0>>, <<0, 0>> >>,
      << <<0, 0>>, <<0, 3000>> >>,
      << <<4000, 0>>, <<0, 4000>> >> }

\* Pose angles in degrees: inside, on and beyond the clip range.
AnglePool == {-100, -90, -10, 10, 90, 100}

\* Distances from the mean face.
DistancePool == {1, 3, 5}

\* The first two corners of original_roi, with integral diagonals 1, 5, 10.
RoiPool ==
    { << <<2, 0>>, <<2, 1>> >>,
      << <<0, 0>>, <<3, 4>> >>,
      << <<1, 1>>, <<7, 9>> >> }

\* The properties of the AlignedFace the code reads.
BaseFace ==
    [ average_distance |-> 1,
      pose |-> [pitch |-> 0, yaw |-> 0, roll |-> 0],
      original_roi |-> << <<0, 0>>, <<3, 4>> >>,
      landmarks |-> << <<0, 0>>, <<0, 0>> >> ]

\* The faces offered to a sorter: the property its _get_metric reads varies.
FacePool(m) ==
    CASE m = "distance" -> {[BaseFace EXCEPT !.average_distance = d] : d \in DistancePool}
      [] m = "size" -> {[BaseFace EXCEPT !.original_roi = r] : r \in RoiPool}
      [] m = "pitch" -> {[BaseFace EXCEPT !.pose.pitch = a] : a \in AnglePool}
      [] m = "yaw" -> {[BaseFace EXCEPT !.pose.yaw = a] : a \in AnglePool}
      [] m = "roll" -> {[BaseFace EXCEPT !.pose.roll = a] : a \in AnglePool}
      [] OTHER -> {[BaseFace EXCEPT !.landmarks = l] : l \in LandmarkPool}

\* The alignments argument: None, an empty dict, or a dict with landmarks_xy
\* (held as the AlignedFace built from it, which is external to this file).
NoAlignments == {[kind |-> "None", landmarks_xy |-> BaseFace],
                 [kind |-> "Empty", landmarks_xy |-> BaseFace]}

AlignmentsPool(m) ==
    NoAlignments \cup {[kind |-> "Dict", landmarks_xy |-> f] : f \in FacePool(m)}

-----------------------------------------------------------------------------
(* Arithmetic helpers *)

Abs(x) == IF x < 0 THEN -x ELSE x

Max2(a, b) == IF a >= b THEN a ELSE b

MinOf(S) == CHOOSE x \in S : \A y \in S : x <= y

\* x ** 0.5 for the perfect squares the ROI pool produces.
Sqrt(s) == CHOOSE r \in 0..s : r * r = s

\* int() / astype("int") of the fraction a / b (b > 0): truncation toward 0.
TruncDiv(a, b) == IF a >= 0 THEN a \div b ELSE -((-a) \div b)

\* Scores: a fraction num / den; float("inf") is 1 / 0.
Inf == [num |-> 1, den |-> 0]

Frac(n, d) == [num |-> n, den |-> d]

\* a < b on fractions with non-negative denominators (inf < x is false,
\* x < inf is true for finite x).
Lt(a, b) == a.num * b.den < b.num * a.den

-----------------------------------------------------------------------------
(* Metrics *)

\* SortSize._get_metric
size_metric(roi) ==
    Sqrt((roi[2][1] - roi[1][1]) * (roi[2][1] - roi[1][1])
         + (roi[2][2] - roi[1][2]) * (roi[2][2] - roi[1][2]))

\* _get_metric of each class.
get_metric(m, aligned_face) ==
    CASE m = "distance" -> aligned_face.average_distance
      [] m = "pitch" -> aligned_face.pose.pitch
      [] m = "yaw" -> aligned_face.pose.yaw
      [] m = "roll" -> aligned_face.pose.roll
      [] m = "size" -> size_metric(aligned_face.original_roi)
      [] OTHER -> aligned_face.landmarks

\* Row p of an array under numpy broadcasting: a one-row array repeats.
Row(arr, p) == IF Len(arr) = 1 THEN arr[1] ELSE arr[p]

RECURSIVE AbsDiffSum(_, _, _)
AbsDiffSum(a, b, p) ==
    IF p = 0 THEN 0
    ELSE Abs(Row(a, p)[1] - Row(b, p)[1]) + Abs(Row(a, p)[2] - Row(b, p)[2])
         + AbsDiffSum(a, b, p - 1)

\* np.sum(np.absolute((a - b).flatten()))
L1(a, b) == AbsDiffSum(a, b, Max2(Len(a), Len(b)))

-----------------------------------------------------------------------------
(* SortAlignedMetric.score_image *)

\* score_image with the alignments check made after the append: an image
\* without alignments leaves a placeholder entry behind.
score_image_late_check(res, filename, alignments, m) ==
    IF alignments.kind \in {"None", "Empty"}
    THEN [result |-> Append(res, <<filename, get_metric(m, BaseFace)>>),
          raised |-> "FaceswapError"]
    ELSE [result |-> Append(res, <<filename, get_metric(m, alignments.landmarks_xy)>>),
          raised |-> "none"]

\* The result list and the exception raised ("none" when the call returns).
score_image(res, filename, alignments, m) ==
    IF alignments.kind \in {"None", "Empty"}
    THEN [result |-> res, raised |-> "FaceswapError"]
    ELSE [result |-> Append(res, <<filename, get_metric(m, alignments.landmarks_xy)>>),
          raised |-> "none"]

-----------------------------------------------------------------------------
(* sort *)

\* e is ordered strictly before x by key itemgetter(1).
Before(e, x, reverse) == IF reverse THEN e[2] > x[2] ELSE e[2] < x[2]

RECURSIVE InsertStable(_, _, _)
InsertStable(s, e, reverse) ==
    IF s = <<>> THEN <<e>>
    ELSE IF Before(e, Head(s), reverse) THEN <<e>> \o s
         ELSE <<Head(s)>> \o InsertStable(Tail(s), e, reverse)

\* sorted(s, key=operator.itemgetter(1), reverse=reverse): a stable sort.
RECURSIVE sorted(_, _)
sorted(s, reverse) ==
    IF s = <<>> THEN <<>>
    ELSE InsertStable(sorted(SubSeq(s, 1, Len(s) - 1), reverse), s[Len(s)], reverse)

\* SortAlignedMetric.sort
SortAlignedMetric_sort(res) == sorted(res, TRUE)

\* SortDistance.sort without its override of the direction.
SortDistance_sort_descending(res) == sorted(res, TRUE)

\* SortDistance.sort
SortDistance_sort(res) == sorted(res, FALSE)

Swap(s, a, b) == [s EXCEPT ![a] = s[b], ![b] = s[a]]

\* The inner loop of _sort_landmarks_ssim for j = j .. n - 1.
RECURSIVE ssim_scan(_, _, _, _)
ssim_scan(res, i, j, cur) ==
    IF j > Len(res) - 1 THEN cur
    ELSE LET score == Frac(L1(res[j + 1][2], res[i + 1][2]), 1)
             nxt == IF Lt(score, cur.min_score)
                    THEN [min_score |-> score, j_min_score |-> j]
                    ELSE cur
         IN ssim_scan(res, i, j + 1, nxt)

\* The ssim iteration with the swap made at position i instead of i + 1.
sort_landmarks_ssim_iter_swap_at_i(res, i) ==
    LET found == ssim_scan(res, i, i + 1, [min_score |-> Inf, j_min_score |-> i + 1])
    IN Swap(res, i + 1, found.j_min_score + 1)

\* One outer iteration of _sort_landmarks_ssim: find j_min_score, then swap
\* result[i + 1] and result[j_min_score].
sort_landmarks_ssim_iter(res, i) ==
    LET found == ssim_scan(res, i, i + 1, [min_score |-> Inf, j_min_score |-> i + 1])
    IN Swap(res, i + 2, found.j_min_score + 1)

\* _sort_landmarks_dissim on the (filename, metric) tuples score_image
\* appends.  With two or more entries the first outer iteration sums the
\* distances and then assigns result[0][2]: a tuple does not support item
\* assignment (TypeError).  With one entry the loop is empty and
\* itemgetter(2) indexes past the 2-tuple (IndexError).  With none, sorted
\* returns the empty list.  The list is not rebound when an exception is
\* raised.
sort_landmarks_dissim(res) ==
    IF Len(res) - 1 > 0 THEN [result |-> res, raised |-> "TypeError"]
    ELSE IF Len(res) = 1 THEN [result |-> res, raised |-> "IndexError"]
         ELSE [result |-> <<>>, raised |-> "none"]

-----------------------------------------------------------------------------
(* SortPitch.binning (inherited by SortYaw and SortRoll) *)

\* np.linspace(90, -90, B + 1)[k], multiplied by B to stay in the integers.
ThresholdTimesBins(k, B) == MaxAngle * B - 2 * MaxAngle * k

\* np.clip
clip(x, lo, hi) == IF x < lo THEN lo ELSE IF x > hi THEN hi ELSE x

\* next(bin_id for bin_id, thresh in enumerate(thresholds) if result >= thresh)
first_bin_id(r, B) == MinOf({k \in 0..B : r * B >= ThresholdTimesBins(k, B)})

\* Position in a list of length len of Python index idx (negative wraps).
PyIndex(idx, len) == IF idx < 0 THEN len + idx + 1 ELSE idx + 1

\* names[k] = np.flip(thresholds.astype("int"))[k] + 90
angle_name(k, B) == TruncDiv(ThresholdTimesBins(B - k, B), B) + MaxAngle

\* _bin_names: "<method>_<idx>_<lo>degs_to_<hi>degs" as <<method, idx, lo, hi>>.
angle_bin_names(m, B) ==
    [p \in 1..B |-> <<m, p - 1, angle_name(p - 1, B), angle_name(p, B)>>]

\* The bins after the first t entries have been placed.
RECURSIVE angle_bins(_, _, _)
angle_bins(res, B, t) ==
    IF t = 0 THEN [p \in 1..B |-> <<>>]
    ELSE LET prev == angle_bins(res, B, t - 1)
             r == clip(res[t][2], -MaxAngle, MaxAngle)
             bin_idx == first_bin_id(r, B) - 1
         IN [prev EXCEPT ![PyIndex(bin_idx, B)] = Append(@, res[t][1])]

SortPitch_binning(m, res, B) ==
    [bin_names |-> angle_bin_names(m, B), bins |-> angle_bins(res, B, Len(res))]

-----------------------------------------------------------------------------
(* SortFaceCNN *)

\* self._threshold, in tenths.
init_threshold(arg) == IF arg < ThresholdFloor THEN DefaultThreshold ELSE arg

\* x tenths as a fraction.
Tenths(x) == Frac(x, 10)

RECURSIVE SumScores(_, _, _)
SumScores(face, references, p) ==
    IF p = 0 THEN 0
    ELSE L1(references[p], face) + SumScores(face, references, p - 1)

\* _get_avg_score: sum(scores) / len(scores); an empty list divides by zero.
get_avg_score(face, references) ==
    Frac(SumScores(face, references, Len(references)), Len(references))

\* The loop over reference_groups.items(): keys were inserted in ascending
\* order, so insertion order is ascending key order.
RECURSIVE scan_groups(_, _, _, _)
scan_groups(fl1, groups, keys, cur) ==
    IF keys = {} THEN cur
    ELSE LET key == MinOf(keys)
             avg == get_avg_score(fl1, groups[key])
             score == IF avg.den = 0 THEN Inf ELSE avg
             nxt == IF Lt(score, cur.current_score)
                    THEN [current_key |-> key, current_score |-> score]
                    ELSE cur
         IN scan_groups(fl1, groups, keys \ {key}, nxt)

\* One iteration of the loop of SortFaceCNN.binning for item i.  A joining
\* item adds fl1[0], the first landmark point (a one-row array), to the
\* references.
binning_iter(res, i, groups, bns, thr) ==
    LET fl1 == res[i + 1][2]
        threshold == Tenths(thr * ThresholdScale)
        best == scan_groups(fl1, groups, DOMAIN groups,
                            [current_key |-> -1, current_score |-> Inf])
    IN IF Lt(best.current_score, threshold)
       THEN [reference_groups |->
                 [groups EXCEPT ![best.current_key] = Append(@, <<fl1[1]>>)],
             bins |-> [bns EXCEPT ![best.current_key + 1] = Append(@, res[i + 1][1])]]
       ELSE [reference_groups |->
                 (Cardinality(DOMAIN groups) :> <<res[i + 1][2]>>) @@ groups,
             bins |-> Append(bns, <<res[i + 1][1]>>)]

\* range(0, img_list_len - 1): the loop runs while i < len(result) - 1.
binning_more(res, i) == i < Len(res) - 1

-----------------------------------------------------------------------------
(* State *)

VARIABLES
    method,            \* self._method
    num_bins,          \* self._num_bins
    threshold,         \* self._threshold in tenths (SortFaceCNN only)
    result,            \* self._result
    bin_names,         \* self._bin_names
    bins,              \* the list binning builds and returns
    reference_groups,  \* binning's group number -> reference arrays
    i,                 \* the outer loop counter of the running loop
    pc,                \* "idle", or the loop in progress: "ssim", "binning"
    raised,            \* exception raised by the last call, "none" if it returned
    files,             \* number of score_image calls so far
    done,              \* which of sort and binning have been called and ended
    call,              \* the last call and, for score_image, its alignments
    sort_input         \* result as it was when sort was called

vars == <<method, num_bins, threshold, result, bin_names, bins, reference_groups,
          i, pc, raised, files, done, call, sort_input>>

\* Only SortPitch.binning reads _num_bins in this file, and only SortFaceCNN
\* has _threshold.
BinsFor(m) == IF m \in AngleMethods THEN 1..MaxBins ELSE {1}

ThresholdsFor(m) ==
    IF m \in CnnMethods THEN {init_threshold(a) : a \in ThresholdArgs} ELSE {0}

Init ==
    /\ method \in Methods
    /\ num_bins \in BinsFor(method)
    /\ threshold \in ThresholdsFor(method)
    /\ result = <<>>
    /\ bin_names = <<>>
    /\ bins = <<>>
    /\ reference_groups = <<>>
    /\ i = 0
    /\ pc = "idle"
    /\ raised = "none"
    /\ files = 0
    /\ done = {}
    /\ call = [op |-> "init", arg |-> "-"]
    /\ sort_input = <<>>

\* score_image(filename, image, alignments) for the next image.
ScoreImage ==
    /\ pc = "idle"
    /\ done = {}
    /\ files < MaxFiles
    /\ \E alignments \in AlignmentsPool(method) :
          LET out == score_image(result, files + 1, alignments, method)
          IN /\ result' = out.result
             /\ raised' = out.raised
             /\ call' = [op |-> "score_image", arg |-> alignments.kind]
    /\ files' = files + 1
    /\ UNCHANGED <<method, num_bins, threshold, bin_names, bins, reference_groups,
                   i, pc, done, sort_input>>

\* sort() of SortDistance, SortSize, SortPitch, SortYaw, SortRoll.
SortMetric ==
    /\ pc = "idle"
    /\ done = {}
    /\ method \notin CnnMethods
    /\ result' = IF method = "distance" THEN SortDistance_sort(result)
                 ELSE SortAlignedMetric_sort(result)
    /\ sort_input' = result
    /\ raised' = "none"
    /\ done' = {"sort"}
    /\ call' = [op |-> "sort", arg |-> "-"]
    /\ UNCHANGED <<method, num_bins, threshold, bin_names, bins, reference_groups,
                   i, pc, files>>

\* SortFaceCNN.sort() with _is_dissim: _sort_landmarks_dissim.
SortDissim ==
    /\ pc = "idle"
    /\ done = {}
    /\ method = "face-cnn-dissim"
    /\ LET out == sort_landmarks_dissim(result)
       IN /\ result' = out.result
          /\ raised' = out.raised
    /\ sort_input' = result
    /\ done' = {"sort"}
    /\ call' = [op |-> "sort", arg |-> "-"]
    /\ UNCHANGED <<method, num_bins, threshold, bin_names, bins, reference_groups,
                   i, pc, files>>

\* SortFaceCNN.sort() without _is_dissim enters _sort_landmarks_ssim.
SsimBegin ==
    /\ pc = "idle"
    /\ done = {}
    /\ method = "face-cnn"
    /\ pc' = "ssim"
    /\ i' = 0
    /\ sort_input' = result
    /\ call' = [op |-> "sort", arg |-> "-"]
    /\ UNCHANGED <<method, num_bins, threshold, result, bin_names, bins,
                   reference_groups, raised, files, done>>

\* One iteration of for i in range(0, img_list_len - 1).
SsimIter ==
    /\ pc = "ssim"
    /\ i < Len(result) - 1
    /\ result' = sort_landmarks_ssim_iter(result, i)
    /\ i' = i + 1
    /\ UNCHANGED <<method, num_bins, threshold, bin_names, bins, reference_groups,
                   pc, raised, files, done, call, sort_input>>

\* The loop is exhausted: sort() returns.
SsimEnd ==
    /\ pc = "ssim"
    /\ ~(i < Len(result) - 1)
    /\ pc' = "idle"
    /\ i' = 0
    /\ raised' = "none"
    /\ done' = {"sort"}
    /\ UNCHANGED <<method, num_bins, threshold, result, bin_names, bins,
                   reference_groups, files, call, sort_input>>

\* binning() of SortPitch, SortYaw, SortRoll.
AngleBinning ==
    /\ pc = "idle"
    /\ "binning" \notin done
    /\ method \in AngleMethods
    /\ LET out == SortPitch_binning(method, result, num_bins)
       IN /\ bin_names' = out.bin_names
          /\ bins' = out.bins
    /\ raised' = "none"
    /\ done' = done \cup {"binning"}
    /\ call' = [op |-> "binning", arg |-> "-"]
    /\ UNCHANGED <<method, num_bins, threshold, result, reference_groups, i, pc,
                   files, sort_input>>

\* SortFaceCNN.binning() starts: empty reference_groups and bins.
CnnBinningBegin ==
    /\ pc = "idle"
    /\ "binning" \notin done
    /\ method \in CnnMethods
    /\ pc' = "binning"
    /\ i' = 0
    /\ reference_groups' = <<>>
    /\ bins' = <<>>
    /\ call' = [op |-> "binning", arg |-> "-"]
    /\ UNCHANGED <<method, num_bins, threshold, result, bin_names, raised, files,
                   done, sort_input>>

\* One iteration of the grouping loop.
CnnBinningIter ==
    /\ pc = "binning"
    /\ binning_more(result, i)
    /\ LET out == binning_iter(result, i, reference_groups, bins, threshold)
       IN /\ reference_groups' = out.reference_groups
          /\ bins' = out.bins
    /\ i' = i + 1
    /\ UNCHANGED <<method, num_bins, threshold, result, bin_names, pc, raised,
                   files, done, call, sort_input>>

\* The loop is exhausted: binning() returns bins.
CnnBinningEnd ==
    /\ pc = "binning"
    /\ ~binning_more(result, i)
    /\ pc' = "idle"
    /\ i' = 0
    /\ raised' = "none"
    /\ done' = done \cup {"binning"}
    /\ UNCHANGED <<method, num_bins, threshold, result, bin_names, bins,
                   reference_groups, files, call, sort_input>>

Next ==
    \/ ScoreImage
    \/ SortMetric
    \/ SortDissim
    \/ SsimBegin
    \/ SsimIter
    \/ SsimEnd
    \/ AngleBinning
    \/ CnnBinningBegin
    \/ CnnBinningIter
    \/ CnnBinningEnd

Spec == Init /\ [][Next]_vars

-----------------------------------------------------------------------------
(* Vocabulary of the properties *)

Filenames(s) == {s[p][1] : p \in 1..Len(s)}

\* Number of places (bin, position) at which filename f occurs in the bins.
Occurrences(f) ==
    Cardinality({kp \in {<<k, p>> : k \in 1..Len(bins), p \in 1..MaxFiles + 1} :
                    kp[2] <= Len(bins[kp[1]]) /\ bins[kp[1]][kp[2]] = f})

\* The bin that holds filename f.
BinOf(f) == CHOOSE k \in 1..Len(bins) : \E p \in 1..Len(bins[k]) : bins[k][p] = f

InBin(f, k) == \E p \in 1..Len(bins[k]) : bins[k][p] = f

\* The metric stored with filename f.
MetricOf(f) == result[CHOOSE p \in 1..Len(result) : result[p][1] = f][2]

\* sort() has been called and has ended, and nothing was called since.
SortJustEnded == pc = "idle" /\ call.op = "sort" /\ "sort" \in done

\* SortFaceCNN.binning() has returned.
CnnBinningReturned == method \in CnnMethods /\ pc = "idle" /\ "binning" \in done

\* The angular binning() has returned.
AngleBinningReturned == method \in AngleMethods /\ "binning" \in done

-----------------------------------------------------------------------------
(* C1 *)

\* C1: when SortFaceCNN.binning returns for a result set of n >= 1 entries,
\* the bins are a partition of the filenames: every filename of the result
\* set occurs exactly once in the bins, and the bins hold no other filename.
C1_BinsPartition ==
    (CnnBinningReturned /\ Len(result) >= 1) =>
        /\ \A f \in Filenames(result) : Occurrences(f) = 1
        /\ \A k \in 1..Len(bins) : \A p \in 1..Len(bins[k]) :
               bins[k][p] \in Filenames(result)

-----------------------------------------------------------------------------
(* C2 *)

RECURSIVE DistanceToOthers(_, _, _)
\* Sum of the L1 distances from entry p of s to the entries q <= upto, q # p.
DistanceToOthers(s, p, upto) ==
    IF upto = 0 THEN 0
    ELSE (IF upto = p THEN 0 ELSE L1(s[upto][2], s[p][2]))
         + DistanceToOthers(s, p, upto - 1)

\* C2: when the dissimilarity sort of SortFaceCNN ends, it has returned
\* normally, every entry carries as aggregate score the sum of its L1
\* distances to all other entries, the result set holds the entries it held
\* before, and they are ordered by non-increasing aggregate score.
C2_DissimSort ==
    (method = "face-cnn-dissim" /\ SortJustEnded) =>
        /\ raised = "none"
        /\ Len(result) = Len(sort_input)
        /\ \A p \in 1..Len(result) :
              /\ Len(result[p]) = 3
              /\ result[p][3] = DistanceToOthers(result, p, Len(result))
              /\ \E q \in 1..Len(sort_input) :
                    /\ sort_input[q][1] = result[p][1]
                    /\ sort_input[q][2] = result[p][2]
        /\ \A p \in 1..Len(result) : \A q \in p..Len(result) :
              result[p][3] >= result[q][3]

-----------------------------------------------------------------------------
(* C5 *)

\* C5: for every sort method, when sort() ends it has returned normally and
\* the result set is a permutation of the one it was called on: the same
\* length, and every filename exactly once.
C5_SortIsPermutation ==
    SortJustEnded =>
        /\ raised = "none"
        /\ Len(result) = Len(sort_input)
        /\ \A q \in 1..Len(sort_input) :
              Cardinality({p \in 1..Len(result) : result[p][1] = sort_input[q][1]}) = 1

-----------------------------------------------------------------------------
(* C7 *)

\* C7: when SortFaceCNN.binning returns for a result set whose first two
\* entries A and B are at L1 distance d, A and B are in different bins if the
\* effective threshold (self._threshold * 1000) is <= d, and in one bin if it
\* is > d.
C7_ThresholdSensitivity ==
    (CnnBinningReturned /\ Len(result) >= 2) =>
        LET A == result[1]
            B == result[2]
            d == Frac(L1(A[2], B[2]), 1)
            effective == Tenths(threshold * ThresholdScale)
        IN IF Lt(d, effective)
           THEN \E k \in 1..Len(bins) : InBin(A[1], k) /\ InBin(B[1], k)
           ELSE \E k1, k2 \in 1..Len(bins) :
                   k1 # k2 /\ InBin(A[1], k1) /\ InBin(B[1], k2)

-----------------------------------------------------------------------------
(* C10 *)

\* C10: while SortFaceCNN.binning runs and when it has returned, the group
\* numbers are exactly 0 .. m - 1 for m bins, and the references of group k
\* are, position by position, the complete landmark arrays of the filenames
\* in bin k.
C10_ClusterReferences ==
    (pc = "binning" \/ CnnBinningReturned) =>
        /\ DOMAIN reference_groups = 0..(Len(bins) - 1)
        /\ \A k \in DOMAIN reference_groups :
              /\ Len(reference_groups[k]) = Len(bins[k + 1])
              /\ \A p \in 1..Len(reference_groups[k]) :
                    reference_groups[k][p] = MetricOf(bins[k + 1][p])

-----------------------------------------------------------------------------
(* C3, C4 *)

\* The angle of an entry after np.clip.
Clamped(e) == clip(e[2], -MaxAngle, MaxAngle)

\* Angle a lies strictly inside the k-th (k = 0 .. B - 1) equal-width
\* sub-interval of [-90, 90], counted from -90.
StrictlyInside(a, k, B) ==
    /\ 2 * MaxAngle * k < (a + MaxAngle) * B
    /\ (a + MaxAngle) * B < 2 * MaxAngle * (k + 1)

\* C3: when the angular binning returns there are num_bins bins, every
\* filename is in exactly one of them, entries whose clamped angles lie
\* strictly inside different sub-intervals are in different bins, and with two
\* or more bins an entry clamped to 90 and an entry clamped to -90 are in the
\* two opposite end bins.
C3_AngleBins ==
    AngleBinningReturned =>
        /\ Len(bins) = num_bins
        /\ \A f \in Filenames(result) : Occurrences(f) = 1
        /\ \A p, q \in 1..Len(result) : \A k1, k2 \in 0..(num_bins - 1) :
              (/\ k1 # k2
               /\ StrictlyInside(Clamped(result[p]), k1, num_bins)
               /\ StrictlyInside(Clamped(result[q]), k2, num_bins))
              => BinOf(result[p][1]) # BinOf(result[q][1])
        /\ num_bins >= 2 =>
              \A p, q \in 1..Len(result) :
                  (Clamped(result[p]) = MaxAngle /\ Clamped(result[q]) = -MaxAngle)
                  => {BinOf(result[p][1]), BinOf(result[q][1])} = {1, num_bins}

\* C4: when the angular binning returns, the bin at index idx is named with
\* idx, and it holds only entries whose clamped angle a satisfies
\* idx * w <= a + 90 <= (idx + 1) * w for w = 180 / num_bins.
C4_AngleBinNames ==
    AngleBinningReturned =>
        \A k \in 1..Len(bins) :
            /\ bin_names[k][2] = k - 1
            /\ \A p \in 1..Len(bins[k]) :
                  LET a == clip(MetricOf(bins[k][p]), -MaxAngle, MaxAngle)
                  IN /\ 2 * MaxAngle * (k - 1) <= (a + MaxAngle) * num_bins
                     /\ (a + MaxAngle) * num_bins <= 2 * MaxAngle * k

-----------------------------------------------------------------------------
(* C6 *)

\* Entries 2 .. k + 1 each have the minimum L1 distance to their predecessor
\* among all the entries that follow that predecessor.
ChainTo(k) ==
    \A p \in 1..k : \A q \in (p + 1)..Len(result) :
        L1(result[p + 1][2], result[p][2]) <= L1(result[q][2], result[p][2])

\* While the similarity chaining runs (i iterations finished) and after it
\* has ended: the first entry is the first input entry, and the chain is
\* built up to entry i + 1, or to the end.
ChainBuilt ==
    (method = "face-cnn" /\ (pc = "ssim" \/ "sort" \in done)) =>
        /\ Len(result) = Len(sort_input)
        /\ Len(result) >= 1 => result[1] = sort_input[1]
        /\ ChainTo(IF pc = "ssim" THEN i ELSE Len(result) - 1)

\* A step taken with i iterations finished leaves entries 1 .. i + 1 alone.
PrefixKept ==
    pc = "ssim" =>
        \A p \in 1..(i + 1) : p <= Len(result) => result'[p] = result[p]

\* C6: similarity chaining keeps the first input entry first, follows every
\* entry (but the last) with an entry at minimum L1 distance from it among
\* the entries after it, and never changes positions 0 .. i + 1 once
\* iteration i has finished.
C6_SsimChain == [](ChainBuilt) /\ [][PrefixKept]_vars

\* A chaining of four entries has ended and has reordered them.
C6_Witness ==
    /\ method = "face-cnn"
    /\ SortJustEnded
    /\ Len(result) = 4
    /\ result # sort_input
    /\ result[3] # sort_input[3]

-----------------------------------------------------------------------------
(* C8 *)

-----------------------------------------------------------------------------
(* C9 *)

\* C9: a score_image call without alignments (None or empty) raises
\* FaceswapError and leaves the result set as it was; a call with alignments
\* returns and appends one entry, for the file of that call, after the
\* entries already there.
C9_ScoreImage ==
    [][(files' = files + 1) =>
          IF call'.arg \in {"None", "Empty"}
          THEN raised' = "FaceswapError" /\ result' = result
          ELSE /\ raised' = "none"
               /\ Len(result') = Len(result) + 1
               /\ SubSeq(result', 1, Len(result)) = result
               /\ result'[Len(result')][1] = files']_vars

\* A call without alignments has failed after two entries were appended, an
\* earlier call having failed too.
C9_Witness ==
    /\ call.op = "score_image"
    /\ call.arg = "Empty"
    /\ raised = "FaceswapError"
    /\ Len(result) = 2
    /\ files = 4

====
